---- MODULE Spec2Model ----
(***************************************************************************)
(* Model of backend1.py: the POST /api/grade handler grade().  Texts (the  *)
(* request body, the essay, the model's reply) are strings handled         *)
(* character by character; json.loads, str.strip and re.search are         *)
(* operators that compute what the library functions compute on the        *)
(* modelled alphabet (integer literals, strings with the escapes \" \\ \/  *)
(* \n \t \r, the literals null/true/false, arrays, objects).               *)
(***************************************************************************)
EXTENDS Integers, Sequences, FiniteSets, TLC

(***************************************************************************)
(* Python values.                                                          *)
(***************************************************************************)
PyNone == [t |-> "NoneType"]
PyBool(b) == [t |-> "bool", b |-> b]
PyInt(n) == [t |-> "int", n |-> n]
PyStr(s) == [t |-> "str", s |-> s]
PyList(l) == [t |-> "list", l |-> l]
PyDict(d) == [t |-> "dict", d |-> d]

EmptyMap == [k \in {} |-> PyNone]

\* Python truth value testing, as used by `x or y`.
Truthy(v) ==
  CASE v.t = "NoneType" -> FALSE
    [] v.t = "bool" -> v.b
    [] v.t = "int" -> v.n # 0
    [] v.t = "str" -> v.s # ""
    [] v.t = "list" -> v.l # <<>>
    [] v.t = "dict" -> DOMAIN v.d # {}

\* x or y
Or(x, y) == IF Truthy(x) THEN x ELSE y

(***************************************************************************)
(* Characters of a string; positions are 1-based here, 0-based in Python.  *)
(***************************************************************************)
Ch(s, i) == IF i >= 1 /\ i <= Len(s) THEN SubSeq(s, i, i) ELSE ""

\* json.decoder.WHITESPACE
JsonWs == {" ", "\t", "\n", "\r"}

\* the whitespace str.strip() removes, within the modelled alphabet
PyWs == {" ", "\t", "\n", "\r"}

Digits == {"0", "1", "2", "3", "4", "5", "6", "7", "8", "9"}

DigitVal(c) == CHOOSE d \in 0..9 : ToString(d) = c

\* Strip without the trimming
StripNothing(s) == s

\* str.strip()
Strip(s) ==
  LET keep == {i \in 1..Len(s) : Ch(s, i) \notin PyWs}
  IN  IF keep = {} THEN ""
      ELSE LET lo == CHOOSE i \in keep : \A j \in keep : i <= j
               hi == CHOOSE i \in keep : \A j \in keep : j <= i
           IN  SubSeq(s, lo, hi)

(***************************************************************************)
(* json.loads.  A parse result is Ok(value, end) with end the 1-based      *)
(* position after the value, or Err(msg, pos) with pos the 0-based offset  *)
(* JSONDecodeError reports.                                                *)
(***************************************************************************)
Ok(v, e) == [ok |-> TRUE, val |-> v, end |-> e, msg |-> "", pos |-> 0]
Err(m, p) == [ok |-> FALSE, val |-> PyNone, end |-> 0, msg |-> m, pos |-> p]

\* WHITESPACE.match(s, i).end()
RECURSIVE SkipWs(_, _)
SkipWs(s, i) == IF Ch(s, i) \in JsonWs THEN SkipWs(s, i + 1) ELSE i

\* the escapes of json.decoder.BACKSLASH that the alphabet can carry
Unescape(c) ==
  CASE c = "\"" -> "\""
    [] c = "\\" -> "\\"
    [] c = "/" -> "/"
    [] c = "n" -> "\n"
    [] c = "t" -> "\t"
    [] c = "r" -> "\r"
    [] OTHER -> ""

\* py_scanstring(s, end) with strict=True; i is the position after the opening quote
RECURSIVE ScanString(_, _, _, _)
ScanString(s, i, begin, acc) ==
  LET c == Ch(s, i)
  IN  CASE i > Len(s) -> Err("Unterminated string starting at", begin - 1)
        [] c = "\"" -> Ok(PyStr(acc), i + 1)
        [] c \in {"\n", "\t", "\r"} ->
             Err("Invalid control character at", i - 1)
        [] c = "\\" ->
             IF i + 1 > Len(s)
             THEN Err("Unterminated string starting at", begin - 1)
             ELSE IF Unescape(Ch(s, i + 1)) = ""
                  THEN Err("Invalid \\escape", i - 1)
                  ELSE ScanString(s, i + 2, begin, acc \o Unescape(Ch(s, i + 1)))
        [] OTHER -> ScanString(s, i + 1, begin, acc \o c)

\* the digits matched by [0-9]* from position i
RECURSIVE DigitsEnd(_, _)
DigitsEnd(s, i) == IF Ch(s, i) \in Digits THEN DigitsEnd(s, i + 1) ELSE i

RECURSIVE DigitsValue(_, _, _, _)
DigitsValue(s, i, e, acc) ==
  IF i >= e THEN acc ELSE DigitsValue(s, i + 1, e, 10 * acc + DigitVal(Ch(s, i)))

\* NUMBER_RE.match(s, i): -?(0|[1-9][0-9]*), integer literals only
ScanNumber(s, i) ==
  LET neg == Ch(s, i) = "-"
      j == IF neg THEN i + 1 ELSE i
      e == IF Ch(s, j) = "0" THEN j + 1 ELSE DigitsEnd(s, j)
      n == DigitsValue(s, j, e, 0)
  IN  IF Ch(s, j) \notin Digits THEN Err("Expecting value", i - 1)
      ELSE Ok(PyInt(IF neg THEN 0 - n ELSE n), e)

RECURSIVE ScanOnce(_, _)

\* JSONObject after a pair: '}' ends the object, ',' must be followed by a key
NextKey(s, pairs, n) ==
  IF Ch(s, n) # "\""
  THEN Err("Expecting property name enclosed in double quotes", n - 1)
  ELSE [ok |-> TRUE, more |-> TRUE, val |-> pairs, end |-> n + 1]

AtDelimiter(s, pairs, e) ==
  CASE Ch(s, e) = "}" -> [ok |-> TRUE, more |-> FALSE, val |-> pairs, end |-> e + 1]
    [] Ch(s, e) # "," -> Err("Expecting ',' delimiter", e - 1)
    [] OTHER -> NextKey(s, pairs, SkipWs(s, e + 1))

AfterValue(s, pairs, k, v) ==
  IF ~v.ok THEN v ELSE AtDelimiter(s, (k :> v.val) @@ pairs, SkipWs(s, v.end))

AtColon(s, pairs, k, c) ==
  IF Ch(s, c) # ":" THEN Err("Expecting ':' delimiter", c - 1)
  ELSE AfterValue(s, pairs, k, ScanOnce(s, SkipWs(s, c + 1)))

AfterKey(s, pairs, key) ==
  IF ~key.ok THEN key
  ELSE AtColon(s, pairs, key.val.s,
               IF Ch(s, key.end) = ":" THEN key.end ELSE SkipWs(s, key.end))

\* one turn of the `while True` loop of JSONObject: i is the position after
\* the key's opening quote; the result says whether another pair follows
ObjectPair(s, i, pairs) == AfterKey(s, pairs, ScanString(s, i, i - 1, ""))

RECURSIVE ObjectLoop(_, _)
ObjectLoop(s, st) ==
  IF ~st.ok THEN st
  ELSE IF ~st.more THEN Ok(PyDict(st.val), st.end)
  ELSE ObjectLoop(s, ObjectPair(s, st.end, st.val))

ObjectStart(s, j) ==
  CASE Ch(s, j) = "\"" -> ObjectLoop(s, [ok |-> TRUE, more |-> TRUE, val |-> EmptyMap, end |-> j + 1])
    [] Ch(s, j) = "}" -> Ok(PyDict(EmptyMap), j + 1)
    [] OTHER -> Err("Expecting property name enclosed in double quotes", j - 1)

\* json.decoder.JSONObject: i is the position after '{'
JSONObject(s, i) == ObjectStart(s, IF Ch(s, i) \in JsonWs THEN SkipWs(s, i) ELSE i)

AfterItem(s, values, v, e) ==
  CASE ~v.ok -> v
    [] Ch(s, e) = "]" -> [ok |-> TRUE, more |-> FALSE, val |-> Append(values, v.val), end |-> e + 1]
    [] Ch(s, e) # "," -> Err("Expecting ',' delimiter", e - 1)
    [] OTHER -> [ok |-> TRUE, more |-> TRUE, val |-> Append(values, v.val),
                 end |-> SkipWs(s, e + 1)]

ScannedItem(s, values, v) == AfterItem(s, values, v, IF v.ok THEN SkipWs(s, v.end) ELSE 0)

\* one turn of the `while True` loop of JSONArray
ArrayItem(s, i, values) == ScannedItem(s, values, ScanOnce(s, i))

RECURSIVE ArrayLoop(_, _)
ArrayLoop(s, st) ==
  IF ~st.ok THEN st
  ELSE IF ~st.more THEN Ok(PyList(st.val), st.end)
  ELSE ArrayLoop(s, ArrayItem(s, st.end, st.val))

ArrayStart(s, j) ==
  IF Ch(s, j) = "]" THEN Ok(PyList(<<>>), j + 1)
  ELSE ArrayLoop(s, [ok |-> TRUE, more |-> TRUE, val |-> <<>>, end |-> j])

\* json.decoder.JSONArray: i is the position after '['
JSONArray(s, i) == ArrayStart(s, SkipWs(s, i))

\* json.scanner.py_make_scanner._scan_once; StopIteration(idx) is reported
\* by every caller as "Expecting value" at idx
ScanOnce(s, i) ==
  CASE i > Len(s) -> Err("Expecting value", i - 1)
    [] Ch(s, i) = "\"" -> ScanString(s, i + 1, i, "")
    [] Ch(s, i) = "{" -> JSONObject(s, i + 1)
    [] Ch(s, i) = "[" -> JSONArray(s, i + 1)
    [] i + 3 <= Len(s) /\ SubSeq(s, i, i + 3) = "null" -> Ok(PyNone, i + 4)
    [] i + 3 <= Len(s) /\ SubSeq(s, i, i + 3) = "true" -> Ok(PyBool(TRUE), i + 4)
    [] i + 4 <= Len(s) /\ SubSeq(s, i, i + 4) = "false" -> Ok(PyBool(FALSE), i + 5)
    [] OTHER -> ScanNumber(s, i)

Decoded(s, r, e) == IF r.ok /\ e # Len(s) + 1 THEN Err("Extra data", e - 1) ELSE r

Scanned(s, r) == Decoded(s, r, IF r.ok THEN SkipWs(s, r.end) ELSE 0)

\* JSONDecoder.decode
json_loads(s) == Scanned(s, ScanOnce(s, SkipWs(s, 1)))

\* JSONDecodeError.__init__: "%s: line %d column %d (char %d)"
JSONDecodeErrorStr(s, r) ==
  LET nl == {i \in 1..r.pos : Ch(s, i) = "\n"}
      last == IF nl = {} THEN 0 ELSE CHOOSE i \in nl : \A j \in nl : j <= i
  IN  r.msg \o ": line " \o ToString(Cardinality(nl) + 1)
        \o " column " \o ToString(r.pos + 1 - last)
        \o " (char " \o ToString(r.pos) \o ")"

\* BraceSearch with the non-greedy pattern \{.*?\}
BraceSearchLazy(text) ==
  LET opens == {i \in 1..Len(text) : Ch(text, i) = "{"}
      first == CHOOSE i \in opens : \A j \in opens : i <= j
      closes == {i \in 1..Len(text) : Ch(text, i) = "}" /\ opens # {} /\ i > first}
      last == CHOOSE i \in closes : \A j \in closes : i <= j
  IN  IF opens = {} \/ closes = {} THEN [found |-> FALSE, group |-> ""]
      ELSE [found |-> TRUE, group |-> SubSeq(text, first, last)]

\* re.search(r"\{.*\}", text, re.S): the span from the first '{' to the last '}'
BraceSearch(text) ==
  LET opens == {i \in 1..Len(text) : Ch(text, i) = "{"}
      first == CHOOSE i \in opens : \A j \in opens : i <= j
      closes == {i \in 1..Len(text) : Ch(text, i) = "}" /\ opens # {} /\ i > first}
      last == CHOOSE i \in closes : \A j \in closes : j <= i
  IN  IF opens = {} \/ closes = {} THEN [found |-> FALSE, group |-> ""]
      ELSE [found |-> TRUE, group |-> SubSeq(text, first, last)]

(***************************************************************************)
(* The handler grade().                                                    *)
(***************************************************************************)
required ==
  {"task_response", "organization", "language_use",
   "development", "mechanics", "overall_score", "concise_rationale"}

\* str(e) of the AttributeError raised by v.attr
AttributeErrorStr(v, attr) ==
  "'" \o v.t \o "' object has no attribute '" \o attr \o "'"

\* jsonify(...), status
Response(status, b) == [status |-> status, body |-> b]
NoResponse == [status |-> 0, body |-> PyNone]

\* HandleException with a fixed message in place of str(e)
HandleExceptionGeneric(e) == Response(500, PyDict("error" :> PyStr("Internal Server Error")))

\* except Exception as e: return jsonify({"error": str(e)}), 500
HandleException(e) == Response(500, PyDict("error" :> PyStr(e)))

Raise(e) == [raised |-> TRUE, exc |-> e, val |-> PyNone]
Return(v) == [raised |-> FALSE, exc |-> "", val |-> v]

\* request.get_json(force=True, silent=True)
Silent(r) == IF r.ok THEN r.val ELSE PyNone
get_json(b) == Silent(json_loads(b))

\* (data.get("essay") or "").strip()
stripped(x) ==
  IF x.t # "str" THEN Raise(AttributeErrorStr(x, "strip")) ELSE Return(PyStr(Strip(x.s)))

get_essay(data) ==
  IF data.t # "dict" THEN Raise(AttributeErrorStr(data, "get"))
  ELSE stripped(Or(IF "essay" \in DOMAIN data.d THEN data.d["essay"] ELSE PyNone, PyStr("")))

\* data = request.get_json(...) or {}; essay = (data.get("essay") or "").strip()
read_essay(b) == get_essay(Or(get_json(b), PyDict(EmptyMap)))

\* reply_text without the strip()
reply_text_untrimmed(content) == Or(content, PyStr("")).s

\* text = (resp.choices[0].message.content or "").strip()
reply_text(content) == Strip(Or(content, PyStr("")).s)

Parsed(k, result, e) == [kind |-> k, result |-> result, exc |-> e]

\* result = json.loads(match.group(0)), not guarded by any try of its own
parse_span(group, span) ==
  IF span.ok THEN Parsed("result", span.val, "")
  ELSE Parsed("raise", PyNone, JSONDecodeErrorStr(group, span))

\* match = re.search(r"\{.*\}", text, re.S); if not match: return ... 502
on_match(match) ==
  IF ~match.found THEN Parsed("nonjson", PyNone, "")
  ELSE parse_span(match.group, json_loads(match.group))

on_strict(text, strict) ==
  IF strict.ok THEN Parsed("result", strict.val, "") ELSE on_match(BraceSearch(text))

\* try: result = json.loads(text)
\* except json.JSONDecodeError: ...
\* kind "result": result is bound; "nonjson": the return inside the except
\* clause; "raise": the second json.loads raised
parse_reply(text) == on_strict(text, json_loads(text))

\* check_required that clamps the integer values to 1..5 before returning
check_required_clamped(result) ==
  CASE result.t # "dict" -> Raise(AttributeErrorStr(result, "keys"))
    [] ~(required \subseteq DOMAIN result.d) ->
         Return(Response(502, PyDict(("error" :> PyStr("Missing keys in model output"))
                                       @@ ("raw" :> result))))
    [] OTHER ->
         Return(Response(200, PyDict([k \in DOMAIN result.d |->
           IF result.d[k].t # "int" THEN result.d[k]
           ELSE IF result.d[k].n < 1 THEN PyInt(1)
           ELSE IF result.d[k].n > 5 THEN PyInt(5) ELSE result.d[k]])))

\* check_required that tests the keys with any() in place of issubset
check_required_any(result) ==
  CASE result.t # "dict" -> Raise(AttributeErrorStr(result, "keys"))
    [] required \cap DOMAIN result.d = {} ->
         Return(Response(502, PyDict(("error" :> PyStr("Missing keys in model output"))
                                       @@ ("raw" :> result))))
    [] OTHER -> Return(Response(200, result))

\* if not required.issubset(result.keys()): ... 502; return jsonify(result), 200
check_required(result) ==
  CASE result.t # "dict" -> Raise(AttributeErrorStr(result, "keys"))
    [] ~(required \subseteq DOMAIN result.d) ->
         Return(Response(502, PyDict(("error" :> PyStr("Missing keys in model output"))
                                       @@ ("raw" :> result))))
    [] OTHER -> Return(Response(200, result))

resolved(text, p) ==
  CASE p.kind = "nonjson" ->
         Return(Response(502, PyDict(("error" :> PyStr("Model returned non-JSON response"))
                                       @@ ("raw" :> PyStr(text)))))
    [] p.kind = "raise" -> Raise(p.exc)
    [] OTHER -> check_required(p.result)

resolve_text(text) == resolved(text, parse_reply(text))

\* lines 105-125: the resolution of the model's reply
resolve(content) == resolve_text(reply_text(content))

(***************************************************************************)
(* The environment: request bodies and model replies.                      *)
(***************************************************************************)
\* bound: whitespace characters in an all-whitespace essay
MaxWs == 2
\* bound: fragments of surrounding text on each side of a reply's core
MaxPad == 1

\* json.dumps of a string, of a scalar and of an object given as its pairs
RECURSIVE DumpChars(_, _)
DumpChars(s, i) ==
  IF i > Len(s) THEN ""
  ELSE LET c == Ch(s, i)
           e == CASE c = "\"" -> "\\\"" [] c = "\\" -> "\\\\" [] c = "\n" -> "\\n"
                  [] c = "\t" -> "\\t" [] c = "\r" -> "\\r" [] OTHER -> c
       IN  e \o DumpChars(s, i + 1)

RECURSIVE Dump(_), DumpItems(_, _), DumpPairs(_, _)
Dump(v) ==
  CASE v.t = "NoneType" -> "null"
    [] v.t = "bool" -> IF v.b THEN "true" ELSE "false"
    [] v.t = "int" -> ToString(v.n)
    [] v.t = "str" -> "\"" \o DumpChars(v.s, 1) \o "\""
    [] v.t = "list" -> "[" \o DumpItems(v.l, 1) \o "]"
    [] v.t = "pairs" -> "{" \o DumpPairs(v.p, 1) \o "}"

DumpItems(l, i) ==
  IF i > Len(l) THEN ""
  ELSE Dump(l[i]) \o (IF i < Len(l) THEN "," ELSE "") \o DumpItems(l, i + 1)

DumpPairs(p, i) ==
  IF i > Len(p) THEN ""
  ELSE "\"" \o DumpChars(p[i][1], 1) \o "\":" \o Dump(p[i][2])
         \o (IF i < Len(p) THEN "," ELSE "") \o DumpPairs(p, i + 1)

\* an object as written: its pairs in order
Pairs(p) == [t |-> "pairs", p |-> p]

\* the Python value a written value denotes (dict: the last of equal keys wins)
RECURSIVE ValueOf(_), DictOf(_, _), ListOf(_, _)
ValueOf(v) ==
  CASE v.t = "pairs" -> PyDict(DictOf(v.p, Len(v.p)))
    [] v.t = "list" -> PyList(ListOf(v.l, Len(v.l)))
    [] OTHER -> v

DictOf(p, n) ==
  IF n = 0 THEN EmptyMap ELSE (p[n][1] :> ValueOf(p[n][2])) @@ DictOf(p, n - 1)

ListOf(l, n) == IF n = 0 THEN <<>> ELSE Append(ListOf(l, n - 1), ValueOf(l[n]))

\* strings of at most n characters over the characters of cs
RECURSIVE Strings(_, _)
Strings(cs, n) ==
  IF n = 0 THEN {""} ELSE {""} \cup {c \o s : c \in cs, s \in Strings(cs, n - 1)}

EssayText == "The weather is nice."

\* the essay field of a request body, as a Python value
EssayValues ==
  {PyStr(w) : w \in Strings({" ", "\n"}, MaxWs)}
    \cup {PyStr(EssayText), PyStr(" \n" \o EssayText \o "\n ")}
    \cup {PyNone, PyInt(0), PyInt(5), PyBool(FALSE), PyBool(TRUE),
          PyList(<<>>), PyList(<<PyInt(1)>>), Pairs(<<>>)}

\* request bodies: objects with and without the field, other JSON, not JSON
Bodies ==
  {Dump(Pairs(<<<<"essay", e>>>>)) : e \in EssayValues}
    \cup {Dump(Pairs(<<<<"text", PyStr(EssayText)>>>>)), "{}", " {} "}
    \cup {Dump(v) : v \in {PyNone, PyInt(0), PyInt(5), PyBool(FALSE), PyBool(TRUE),
                           PyStr(""), PyStr(EssayText), PyList(<<>>),
                           PyList(<<PyInt(1)>>)}}
    \cup {"", "essay=The weather is nice.", "{\"essay\":"}

\* the reply of the specification's scenario, and one whose values are
\* out of range, of other types and not the average
Scenario ==
  Pairs(<< <<"task_response", PyInt(3)>>, <<"organization", PyInt(3)>>,
           <<"language_use", PyInt(3)>>, <<"development", PyInt(3)>>,
           <<"mechanics", PyInt(3)>>, <<"overall_score", PyInt(3)>>,
           <<"concise_rationale", PyStr("Too short; needs development.")>> >>)

OddValues ==
  Pairs(<< <<"concise_rationale", PyList(<<PyInt(7)>>)>>, <<"overall_score", PyInt(5)>>,
           <<"mechanics", PyInt(-1)>>, <<"development", PyNone>>,
           <<"language_use", PyStr("4")>>, <<"organization", PyInt(0)>>,
           <<"task_response", PyInt(9)>> >>)

\* exactly the seven required keys
ExactObjects == {Scenario, OddValues}

\* the seven keys and one more
ExtraKey == Pairs(Append(Scenario.p, <<"notes", PyStr("{ok}")>>))

\* objects that omit a required key
PartialObjects ==
  {Pairs(SubSeq(Scenario.p, 1, 6)), Pairs(<<>>),
   Pairs(<< <<"overall_score", Pairs(<< <<"value", PyInt(3)>> >>)>> >>)}

Objects == ExactObjects \cup {ExtraKey} \cup PartialObjects

\* JSON that is not an object
NonObjects ==
  {PyInt(5), PyNone, PyBool(TRUE), PyStr("Good essay."), PyList(<<>>),
   PyList(<<PyInt(1), PyInt(2)>>), PyList(<<Scenario>>)}

\* text that is not JSON
Junk == {"", "I cannot grade this.", "{score: 3", "{\"overall_score\":}"}

Cores == {Dump(v) : v \in Objects \cup NonObjects} \cup Junk

Fragments == {"Here is the result: ", " Thanks", "{", "}", "\n"}

Surround == Strings(Fragments, MaxPad)

ApiErrors == {"Connection error.", "Request timed out."}

\* what client.chat.completions.create does: a completion whose content is
\* a text or None, a completion with no choice, or an exception
Outcome(k, p, c, q, content, m) ==
  [kind |-> k, pre |-> p, core |-> c, post |-> q, content |-> content, msg |-> m]

NoCall == Outcome("none", "", "", "", PyNone, "")

ApiOutcomes ==
  {Outcome("reply", p, c, q, PyStr(p \o c \o q), "") : p \in Surround, c \in Cores, q \in Surround}
    \cup {Outcome("reply", "", "", "", PyNone, ""), Outcome("nochoice", "", "", "", PyNone, "")}
    \cup {Outcome("raise", "", "", "", PyNone, m) : m \in ApiErrors}

(***************************************************************************)
(* The state of one request at a time.                                     *)
(***************************************************************************)
VARIABLES
  pc,        \* "idle", "validate", "call", "resolve", "done"
  body,      \* the request body
  essay,     \* the trimmed essay, once validated
  calls,     \* calls of the completion API made for this request
  api,       \* what the completion API did
  raised,    \* <<str(e)>> of the exception the except clause caught, else <<>>
  response   \* the response returned

vars == <<pc, body, essay, calls, api, raised, response>>

Init ==
  /\ pc = "idle"
  /\ body = ""
  /\ essay = ""
  /\ calls = 0
  /\ api = NoCall
  /\ raised = <<>>
  /\ response = NoResponse

\* a POST /api/grade arrives
Receive(b) ==
  /\ pc = "idle"
  /\ pc' = "validate"
  /\ body' = b
  /\ UNCHANGED <<essay, calls, api, raised, response>>

\* the outcome r of lines 82-86: the except clause, the 400, or the essay
Validated(r) ==
  IF r.raised
  THEN /\ raised' = <<r.exc>>
       /\ response' = HandleException(r.exc)
       /\ pc' = "done"
       /\ UNCHANGED essay
  ELSE IF r.val.s = ""
  THEN /\ response' = Response(400, PyDict("error" :> PyStr("Essay text required")))
       /\ pc' = "done"
       /\ UNCHANGED <<essay, raised>>
  ELSE /\ essay' = r.val.s
       /\ pc' = "call"
       /\ UNCHANGED <<raised, response>>

\* lines 82-88
Validate ==
  /\ pc = "validate"
  /\ Validated(read_essay(body))
  /\ UNCHANGED <<body, calls, api>>

\* CallAPI that calls a second time when the first call raises
CallAPIRetry(o) ==
  /\ pc = "call"
  /\ api' = o
  /\ IF o.kind = "raise"
     THEN /\ calls' = calls + 2
          /\ raised' = <<o.msg>>
          /\ response' = HandleException(o.msg)
          /\ pc' = "done"
     ELSE /\ calls' = calls + 1
          /\ pc' = "resolve"
          /\ UNCHANGED <<raised, response>>
  /\ UNCHANGED <<body, essay>>

\* lines 96-103: the one call of client.chat.completions.create
CallAPI(o) ==
  /\ pc = "call"
  /\ calls' = calls + 1
  /\ api' = o
  /\ IF o.kind = "raise"
     THEN /\ raised' = <<o.msg>>
          /\ response' = HandleException(o.msg)
          /\ pc' = "done"
     ELSE /\ pc' = "resolve"
          /\ UNCHANGED <<raised, response>>
  /\ UNCHANGED <<body, essay>>

\* the outcome r of lines 105-125: the except clause or the return
Resolved(r) ==
  IF r.raised
  THEN /\ raised' = <<r.exc>>
       /\ response' = HandleException(r.exc)
  ELSE /\ response' = r.val
       /\ UNCHANGED raised

\* lines 105-125
Resolve ==
  /\ pc = "resolve"
  /\ Resolved(IF api.kind = "nochoice" THEN Raise("list index out of range")
              ELSE resolve(api.content))
  /\ pc' = "done"
  /\ UNCHANGED <<body, essay, calls, api>>

\* the response is sent; nothing of the request is kept
Finish ==
  /\ pc = "done"
  /\ pc' = "idle"
  /\ body' = ""
  /\ essay' = ""
  /\ calls' = 0
  /\ api' = NoCall
  /\ raised' = <<>>
  /\ response' = NoResponse

Next ==
  \/ pc = "idle" /\ \E b \in Bodies : Receive(b)
  \/ Validate
  \/ pc = "call" /\ \E o \in ApiOutcomes : CallAPI(o)
  \/ Resolve
  \/ Finish

Spec == Init /\ [][Next]_vars

(***************************************************************************)
(* The properties.                                                         *)
(***************************************************************************)
EssayRequired == Response(400, PyDict("error" :> PyStr("Essay text required")))

NonJson(raw) ==
  Response(502, PyDict(("error" :> PyStr("Model returned non-JSON response"))
                         @@ ("raw" :> PyStr(raw))))

MissingKeys(raw) ==
  Response(502, PyDict(("error" :> PyStr("Missing keys in model output"))
                         @@ ("raw" :> raw)))

\* the model's reply after trimming
TrimmedReply == IF api.content.t = "str" THEN Strip(api.content.s) ELSE ""

Replied == pc = "done" /\ api.kind = "reply"

Chars(s) == {Ch(s, i) : i \in 1..Len(s)}

\* bodies that are an object whose essay is absent or all whitespace
EmptyEssayBodies ==
  {Dump(Pairs(<<<<"essay", PyStr(w)>>>>)) : w \in Strings({" ", "\n"}, MaxWs)}
    \cup {Dump(Pairs(<<<<"text", PyStr(EssayText)>>>>)), "{}", " {} "}

\* bodies whose essay is a text that is not empty after trimming
ValidBodies ==
  {Dump(Pairs(<<<<"essay", PyStr(EssayText)>>>>)),
   Dump(Pairs(<<<<"essay", PyStr(" \n" \o EssayText \o "\n ")>>>>))}

\* bodies that are not JSON, JSON that is no object, or an essay that is no text
MalformedBodies ==
  {"", "essay=The weather is nice.", "{\"essay\":"}
    \cup {Dump(v) : v \in {PyNone, PyInt(0), PyInt(5), PyBool(FALSE), PyBool(TRUE),
                           PyStr(""), PyStr(EssayText), PyList(<<>>),
                           PyList(<<PyInt(1)>>)}}
    \cup {Dump(Pairs(<<<<"essay", e>>>>)) :
            e \in {PyInt(5), PyBool(TRUE), PyList(<<PyInt(1)>>)}}

\* C1: a request whose essay is absent or empty after trimming ends with
\* 400 {"error": "Essay text required"}, and the completion API is not
\* called at any point of it.
C1_EmptyEssayRejected ==
  body \in EmptyEssayBodies =>
    /\ pc \in {"validate", "done"}
    /\ calls = 0
    /\ api = NoCall
    /\ pc = "done" => response = EssayRequired

C1_Witness ==
  /\ pc = "done"
  /\ body = Dump(Pairs(<<<<"essay", PyStr(" \n")>>>>))
  /\ response.status = 400

\* C2: a reply that fails strict parsing and has a brace span that does not
\* parse ends with 502 "Model returned non-JSON response" and the raw text.
C2_UnparseableSpanIs502 ==
  (/\ Replied
   /\ ~json_loads(TrimmedReply).ok
   /\ BraceSearch(TrimmedReply).found
   /\ ~json_loads(BraceSearch(TrimmedReply).group).ok)
    => response = NonJson(TrimmedReply)

\* C3: a reply that parses as JSON, strictly or by the brace span, to a
\* value that lacks a required key (a value that is no object included)
\* ends with 502 "Missing keys in model output" and the parsed value.
C3_MissingKeysIs502 ==
  (/\ Replied
   /\ parse_reply(TrimmedReply).kind = "result"
   /\ \/ parse_reply(TrimmedReply).result.t # "dict"
      \/ ~(required \subseteq DOMAIN parse_reply(TrimmedReply).result.d))
    => response = MissingKeys(parse_reply(TrimmedReply).result)

\* C4 as stated: every reply without a brace span, valid JSON that is no
\* object included, ends with 502 "Model returned non-JSON response".
C4_NoSpanIs502 ==
  (Replied /\ ~BraceSearch(TrimmedReply).found) => response = NonJson(TrimmedReply)

\* C4 amended: a reply without a brace span that fails strict parsing (the
\* empty reply included) ends with 502 "Model returned non-JSON response"
\* and raw equal to the trimmed reply.
C4_NoSpanUnparseableIs502 ==
  (/\ Replied
   /\ ~BraceSearch(TrimmedReply).found
   /\ ~json_loads(TrimmedReply).ok)
    => response = NonJson(TrimmedReply)

C4_Witness ==
  /\ pc = "done"
  /\ api.pre = "\n"
  /\ api.core = "I cannot grade this."
  /\ api.post = "\n"
  /\ response = NonJson("I cannot grade this.")

\* the outcome the handler should reach from the object v once it is parsed
Passed(v) ==
  IF required \subseteq DOMAIN ValueOf(v).d
  THEN Response(200, ValueOf(v)) ELSE MissingKeys(ValueOf(v))

\* a valid JSON object lies within surrounding text that is not only whitespace
Embedded ==
  /\ Replied
  /\ api.core \in {Dump(v) : v \in Objects}
  /\ Strip(api.pre) # "" \/ Strip(api.post) # ""

\* C5 as stated: a valid JSON object embedded in any surrounding text, braces
\* included, is extracted and parsed, so the request ends neither with the
\* non-JSON error nor with a server error.
C5_EmbeddedObjectExtracted ==
  Embedded => \E v \in Objects : api.core = Dump(v) /\ response = Passed(v)

\* C5 amended: a valid JSON object embedded in surrounding text that has no
\* '{' before the object and no '}' after it, in a reply that is not valid
\* JSON as a whole, is extracted and parsed: the request ends with 200 or
\* with the missing-keys 502 for that object.
C5_EmbeddedObjectExtractedNoOuterBrace ==
  (/\ Embedded
   /\ "{" \notin Chars(api.pre)
   /\ "}" \notin Chars(api.post)
   /\ ~json_loads(TrimmedReply).ok)
    => \E v \in Objects : api.core = Dump(v) /\ response = Passed(v)

C5_Witness ==
  /\ pc = "done"
  /\ api.pre = "Here is the result: "
  /\ api.core = Dump(Scenario)
  /\ api.post = " Thanks"
  /\ response = Response(200, ValueOf(Scenario))

\* C6: a request whose body is not JSON, is JSON but no object, or whose
\* essay is not a text ends with 400 "Essay text required" and no call.
C6_MalformedPayloadRejected ==
  (pc = "done" /\ body \in MalformedBodies) => (response = EssayRequired /\ calls = 0)

\* C7: a reply that is valid JSON with exactly the seven required keys ends
\* with 200 and the parsed object unchanged, whatever its values.
C7_ExactObjectPassedThrough ==
  (/\ Replied
   /\ api.core \in {Dump(v) : v \in ExactObjects}
   /\ Strip(api.pre) = ""
   /\ Strip(api.post) = "")
    => \E v \in ExactObjects : api.core = Dump(v) /\ response = Response(200, ValueOf(v))

C7_Witness ==
  /\ pc = "done"
  /\ api.pre = "\n"
  /\ api.core = Dump(OddValues)
  /\ api.post = ""
  /\ response.status = 200
  /\ response.body.d["task_response"] = PyInt(9)
  /\ response.body.d["language_use"] = PyStr("4")

\* C8: a request whose essay is not empty after trimming calls the
\* completion API exactly once, whatever the outcome, and no request ever
\* calls it more than once.
C8_ExactlyOneCall ==
  /\ calls <= 1
  /\ (body \in ValidBodies /\ pc \in {"validate", "call"}) => calls = 0
  /\ (body \in ValidBodies /\ pc \in {"resolve", "done"}) => calls = 1
  /\ (pc = "done" /\ essay # "") => calls = 1

C8_Witness ==
  /\ pc = "done"
  /\ body \in ValidBodies
  /\ api.kind = "raise"
  /\ response.status = 500
  /\ calls = 1

\* C9: an exception raised by any step, the completion API's included, ends
\* the request with 500 {"error": str(e)}; every request ends with a
\* response, and the failed call is not repeated.
C9_ExceptionIs500 ==
  pc = "done" =>
    /\ response.status \in {200, 400, 500, 502}
    /\ raised # <<>> => response = Response(500, PyDict("error" :> PyStr(raised[1])))
    /\ api.kind = "raise" => (raised = <<api.msg>> /\ calls = 1)
    /\ api.kind = "nochoice" => raised = <<"list index out of range">>

C9_Witness ==
  /\ pc = "done"
  /\ api.kind = "raise"
  /\ api.msg = "Connection error."
  /\ response = Response(500, PyDict("error" :> PyStr("Connection error.")))

\* C10: a 200 response carries an object with all seven required keys, is
\* preceded by exactly one call, and comes from a non-empty essay and a
\* reply that parsed to that object.
C10_OkHasAllKeys ==
  response.status = 200 =>
    /\ response.body.t = "dict"
    /\ required \subseteq DOMAIN response.body.d
    /\ calls = 1
    /\ essay # ""
    /\ body \notin EmptyEssayBodies
    /\ api.kind = "reply"
    /\ parse_reply(TrimmedReply).kind = "result"
    /\ parse_reply(TrimmedReply).result = response.body

C10_Witness ==
  /\ pc = "done"
  /\ response.status = 200
  /\ api.core = Dump(ExtraKey)
  /\ api.pre = "}"
  /\ calls = 1
====
